---------------------------- MODULE Spec2Model ----------------------------
(***************************************************************************)
(* Verification model of go.nhat.io/grpcmock (expectation record, delay    *)
(* strategies, generic invocation and stream drain).                        *)
(*                                                                         *)
(* Independent parts of the package are modelled, each with its own       *)
(* specification over its own group of variables:                           *)
(*   Spec        baseExpectation under concurrent callers                   *)
(*   SpecDelay   the delayer closures (noWait/waitForSignal/waitForDuration)*)
(*   SpecInvoke  InvokeUnary, InvokeServerStream and RecvAll                *)
(*   SpecFormat  format.ExpectedRequest, ExpectedRequestTimes, Request      *)
(*   SpecValue   format's formatValue, formatValueInline, formatType        *)
(***************************************************************************)
EXTENDS Integers, Sequences, FiniteSets, TLC

(***************************************************************************)
(* Bounds of the model.                                                    *)
(***************************************************************************)
NumProcs == 2
MaxTimes == 2
MaxCalls == 3
MaxDur   == 2
MaxMsgs  == 2
MaxDepth == 2
MaxCount == 2
MaxKeys  == 2
MaxWrap  == 2

Max(a, b) == IF a >= b THEN a ELSE b

VARIABLES
    \* ---- baseExpectation ----
    e,          \* the fields of the record
    locker,     \* the injected sync.Locker: its kind and who holds it
    pc,         \* position of every caller inside its current method
    op,         \* the method every caller is executing
    tmp,        \* the local value a caller has loaded / will return
    hist,       \* history: completed Fulfilled() calls, last withTimes(),
                \* the record as the Fulfilled() in progress found it
    \* ---- delayer ----
    dl,         \* the delayer closure under test and its call
    ctx,        \* the context.Context handed to the delayer
    sig,        \* the channel captured by waitForSignal
    clock,      \* time elapsed since time.After() was evaluated
    \* ---- InvokeServerStream / RecvAll ----
    inv,        \* position, inputs and result of the invocation
    steps,      \* the external calls performed so far, in order
    stream,     \* the grpc.ClientStream: script and receive count
    heap,       \* the values allocated through reflect.New
    out,        \* the caller's container (what the out pointer points to)
    \* ---- format ----
    fm,         \* one call of an entry point of format: inputs and output
    fv          \* one call of a value formatter: input and result

recVars   == <<e, locker, pc, op, tmp, hist>>
delayVars == <<dl, ctx, sig, clock>>
invVars   == <<inv, steps, stream, heap, out>>
fmtVars   == <<fm, fv>>
vars      == <<e, locker, pc, op, tmp, hist, dl, ctx, sig, clock,
               inv, steps, stream, heap, out, fm, fv>>

(***************************************************************************)
(* baseExpectation                                                         *)
(*                                                                         *)
(* fulfilledTimes and repeatTimes are Go uint.  Both stay within           *)
(* 0..Max(MaxTimes, MaxCalls) here, far below 2^32, so the increment never *)
(* reaches the width; the decrement is the place where a wrap could occur  *)
(* and is modelled with its guard.                                         *)
(***************************************************************************)
Procs == 1..NumProcs

LockerKinds == {"mutex", "noop"}

\* Methods of baseExpectation that call e.lock() / defer e.unlock().
LockingOps == {"withFs", "withTimes", "HeaderMatcher", "RemainTimes",
               "Fulfilled", "FulfilledTimes"}
\* Methods that read a field without taking the lock.
PlainOps   == {"ServiceMethod", "PayloadMatcher"}

\* The record right after construction: Go zero values for the counters,
\* the matchers, descriptor, status and delay as configured by the builder.
baseExpectation ==
    [fs             |-> "nil",
     delay          |-> "noWait",
     serviceDesc    |-> "svc.Method",
     requestHeader  |-> "headerMatcher",
     requestPayload |-> "payloadMatcher",
     statusCode     |-> "OK",
     statusMessage  |-> "",
     fulfilledTimes |-> 0,
     repeatTimes    |-> 0]

DelayIdle ==
    /\ dl = [kind |-> "noWait", d |-> 0, pc |-> "off", result |-> "none",
             case |-> "none", blocked |-> FALSE, cancelledAtCall |-> FALSE]
    /\ ctx = [done |-> FALSE, err |-> "nil"]
    /\ sig = [state |-> "empty", fired |-> FALSE]
    /\ clock = 0

InvokeIdle ==
    /\ inv = [pc |-> "off", call |-> "none", url |-> <<>>,
              handle |-> "nil", outKind |-> "nil",
              depth |-> 0, failed |-> "none", cause |-> "none",
              result |-> <<>>, addr |-> <<>>, method |-> <<>>,
              slice |-> <<>>, old |-> <<>>]
    /\ steps = <<>>
    /\ stream = [msgs |-> <<>>, ending |-> <<>>, nRecv |-> 0]
    /\ heap = <<>>
    /\ out = <<>>

RequestIdle ==
    fm = [pc |-> "off", entry |-> "none", header |-> <<>>,
          payload |-> "none", totalCalls |-> 0, remainingCalls |-> 0,
          order |-> <<>>, out |-> <<>>]

ValueIdle ==
    fv = [pc |-> "off", fn |-> "none", v |-> "none", result |-> <<>>]

FormatIdle == RequestIdle /\ ValueIdle

InitRec ==
    /\ e = baseExpectation
    /\ \E k \in LockerKinds : locker = [kind |-> k, held |-> 0]
    /\ pc = [p \in Procs |-> "idle"]
    /\ op = [p \in Procs |-> "none"]
    /\ tmp = [p \in Procs |-> 0]
    /\ hist = [fulfilled |-> 0, setN |-> 0, since |-> 0,
               before |-> baseExpectation]

\* A no-op locker is only injected when a single execution unit uses the
\* record; with a mutex every caller may run.
MayRun(p) == locker.kind = "mutex" \/ p = 1

\* e.locker.Lock(): a sync.Mutex admits the caller only when it is free,
\* a no-op locker always.
LockAdmitsAlways(l) == TRUE

LockAdmits(l) == l.kind = "noop" \/ l.held = 0

\* e.locker.Unlock()
NotReleased(l) == l

Released(l) == IF l.kind = "mutex" THEN [l EXCEPT !.held = 0] ELSE l

\* Whether a method starts with e.lock() / defer e.unlock().
takesLockOnlyToWrite(o) == o \in {"withFs", "withTimes", "Fulfilled"}

takesLock(o) == o \in LockingOps

\* if e.repeatTimes > 0 { e.repeatTimes-- }
DecrementUnguarded(rt) == rt - 1

RepeatAfterFulfilled(rt) == IF rt > 0 THEN rt - 1 ELSE rt

\* e.fulfilledTimes++   (rt is the value the preceding if tested)
IncrementOnlyWhileRemaining(ft, rt) == IF rt > 0 THEN ft + 1 ELSE ft

FulfilledAfter(ft, rt) == ft + 1

\* Fulfilled() calls entered and not yet returned.
InFlight == Cardinality({p \in Procs : op[p] = "Fulfilled"})

\* A caller enters one of the methods.
Call(p) ==
    /\ pc[p] = "idle"
    /\ MayRun(p)
    /\ \E o \in LockingOps \cup PlainOps :
          /\ o = "Fulfilled" => hist.fulfilled + InFlight < MaxCalls
          /\ op' = [op EXCEPT ![p] = o]
          /\ pc' = [pc EXCEPT ![p] =
                       IF takesLock(o) THEN "lock" ELSE "body"]
    /\ UNCHANGED <<e, locker, tmp, hist>>
    /\ UNCHANGED <<delayVars, invVars, fmtVars>>

\* e.lock()
lock(p) ==
    /\ pc[p] = "lock"
    /\ LockAdmits(locker)
    /\ locker' = IF locker.kind = "mutex"
                 THEN [locker EXCEPT !.held = p] ELSE locker
    /\ pc' = [pc EXCEPT ![p] =
                 IF op[p] = "Fulfilled" THEN "loadR" ELSE "body"]
    /\ hist' = IF op[p] = "Fulfilled" THEN [hist EXCEPT !.before = e]
               ELSE hist
    /\ UNCHANGED <<e, op, tmp>>
    /\ UNCHANGED <<delayVars, invVars, fmtVars>>

\* e.fs = fs
withFs(p) ==
    /\ pc[p] = "body" /\ op[p] = "withFs"
    /\ e' = [e EXCEPT !.fs = "MemMapFs"]
    /\ pc' = [pc EXCEPT ![p] = "unlock"]
    /\ UNCHANGED <<locker, op, tmp, hist>>
    /\ UNCHANGED <<delayVars, invVars, fmtVars>>

\* e.repeatTimes = t
withTimes(p) ==
    /\ pc[p] = "body" /\ op[p] = "withTimes"
    /\ \E t \in 0..MaxTimes :
          /\ e' = [e EXCEPT !.repeatTimes = t]
          /\ hist' = [hist EXCEPT !.setN = t, !.since = 0]
    /\ pc' = [pc EXCEPT ![p] = "unlock"]
    /\ UNCHANGED <<locker, op, tmp>>
    /\ UNCHANGED <<delayVars, invVars, fmtVars>>

\* return *e.serviceDesc         (no lock)
ServiceMethod(p) ==
    /\ pc[p] = "body" /\ op[p] = "ServiceMethod"
    /\ tmp' = [tmp EXCEPT ![p] = e.serviceDesc]
    /\ pc' = [pc EXCEPT ![p] = "return"]
    /\ UNCHANGED <<e, locker, op, hist>>
    /\ UNCHANGED <<delayVars, invVars, fmtVars>>

\* return e.requestHeader
HeaderMatcher(p) ==
    /\ pc[p] = "body" /\ op[p] = "HeaderMatcher"
    /\ tmp' = [tmp EXCEPT ![p] = e.requestHeader]
    /\ pc' = [pc EXCEPT ![p] = "unlock"]
    /\ UNCHANGED <<e, locker, op, hist>>
    /\ UNCHANGED <<delayVars, invVars, fmtVars>>

\* return e.requestPayload       (no lock)
PayloadMatcher(p) ==
    /\ pc[p] = "body" /\ op[p] = "PayloadMatcher"
    /\ tmp' = [tmp EXCEPT ![p] = e.requestPayload]
    /\ pc' = [pc EXCEPT ![p] = "return"]
    /\ UNCHANGED <<e, locker, op, hist>>
    /\ UNCHANGED <<delayVars, invVars, fmtVars>>

\* return e.repeatTimes
RemainTimes(p) ==
    /\ pc[p] = "body" /\ op[p] = "RemainTimes"
    /\ tmp' = [tmp EXCEPT ![p] = e.repeatTimes]
    /\ pc' = [pc EXCEPT ![p] = "unlock"]
    /\ UNCHANGED <<e, locker, op, hist>>
    /\ UNCHANGED <<delayVars, invVars, fmtVars>>

\* Fulfilled(): the two read-modify-write statements, each as a load of the
\* field followed by a store of the new value.
FulfilledLoadRepeat(p) ==
    /\ pc[p] = "loadR"
    /\ tmp' = [tmp EXCEPT ![p] = e.repeatTimes]
    /\ pc' = [pc EXCEPT ![p] = "storeR"]
    /\ UNCHANGED <<e, locker, op, hist>>
    /\ UNCHANGED <<delayVars, invVars, fmtVars>>

FulfilledStoreRepeat(p) ==
    /\ pc[p] = "storeR"
    /\ e' = [e EXCEPT !.repeatTimes = RepeatAfterFulfilled(tmp[p])]
    /\ pc' = [pc EXCEPT ![p] = "loadF"]
    /\ UNCHANGED <<locker, op, tmp, hist>>
    /\ UNCHANGED <<delayVars, invVars, fmtVars>>

FulfilledLoadFulfilled(p) ==
    /\ pc[p] = "loadF"
    /\ tmp' = [tmp EXCEPT ![p] = FulfilledAfter(e.fulfilledTimes, tmp[p])]
    /\ pc' = [pc EXCEPT ![p] = "storeF"]
    /\ UNCHANGED <<e, locker, op, hist>>
    /\ UNCHANGED <<delayVars, invVars, fmtVars>>

FulfilledStoreFulfilled(p) ==
    /\ pc[p] = "storeF"
    /\ e' = [e EXCEPT !.fulfilledTimes = tmp[p]]
    /\ tmp' = [tmp EXCEPT ![p] = 0]
    /\ pc' = [pc EXCEPT ![p] = "unlock"]
    /\ UNCHANGED <<locker, op, hist>>
    /\ UNCHANGED <<delayVars, invVars, fmtVars>>

\* return e.fulfilledTimes
FulfilledTimes(p) ==
    /\ pc[p] = "body" /\ op[p] = "FulfilledTimes"
    /\ tmp' = [tmp EXCEPT ![p] = e.fulfilledTimes]
    /\ pc' = [pc EXCEPT ![p] = "unlock"]
    /\ UNCHANGED <<e, locker, op, hist>>
    /\ UNCHANGED <<delayVars, invVars, fmtVars>>

\* defer e.unlock(), then the method returns tmp[p] to its caller
unlock(p) ==
    /\ pc[p] = "unlock"
    /\ locker' = Released(locker)
    /\ hist' = IF op[p] = "Fulfilled"
               THEN [hist EXCEPT !.fulfilled = @ + 1, !.since = @ + 1,
                                 !.before = baseExpectation]
               ELSE hist
    /\ pc' = [pc EXCEPT ![p] = "idle"]
    /\ op' = [op EXCEPT ![p] = "none"]
    /\ tmp' = [tmp EXCEPT ![p] = 0]
    /\ UNCHANGED e
    /\ UNCHANGED <<delayVars, invVars, fmtVars>>

\* A method that took no lock returns tmp[p] to its caller.
Return(p) ==
    /\ pc[p] = "return"
    /\ pc' = [pc EXCEPT ![p] = "idle"]
    /\ op' = [op EXCEPT ![p] = "none"]
    /\ tmp' = [tmp EXCEPT ![p] = 0]
    /\ UNCHANGED <<e, locker, hist>>
    /\ UNCHANGED <<delayVars, invVars, fmtVars>>

NextRec ==
    \E p \in Procs :
          \/ Call(p)
          \/ lock(p)
          \/ withFs(p)
          \/ withTimes(p)
          \/ ServiceMethod(p)
          \/ HeaderMatcher(p)
          \/ PayloadMatcher(p)
          \/ RemainTimes(p)
          \/ FulfilledLoadRepeat(p)
          \/ FulfilledStoreRepeat(p)
          \/ FulfilledLoadFulfilled(p)
          \/ FulfilledStoreFulfilled(p)
          \/ FulfilledTimes(p)
          \/ unlock(p)
          \/ Return(p)

Init == InitRec /\ DelayIdle /\ InvokeIdle /\ FormatIdle

Spec == Init /\ [][NextRec]_vars

\* No caller is between e.lock() and e.unlock().
InCritical(p) == pc[p] \in {"body", "loadR", "storeR", "loadF", "storeF",
                            "unlock"} /\ op[p] \in LockingOps
Quiet == \A p \in Procs : ~InCritical(p)


(***************************************************************************)
(* Claims about baseExpectation (checked under Spec).                      *)
(***************************************************************************)

\* C1: once a record has been set to N > 0 by withTimes(N), after N
\* Fulfilled() calls RemainTimes() returns 0, further Fulfilled() calls
\* leave it at 0, and repeatTimes is never below 0.  Between calls the
\* field equals max(N - k, 0), k the Fulfilled() calls since withTimes(N).
C1_RemainTimesReachesZero ==
    /\ e.repeatTimes >= 0
    /\ (Quiet /\ hist.setN > 0)
          => e.repeatTimes = Max(hist.setN - hist.since, 0)
    /\ \A p \in Procs :
          (pc[p] = "unlock" /\ op[p] = "RemainTimes"
              /\ hist.setN > 0 /\ hist.since >= hist.setN) => tmp[p] = 0

\* RemainTimes() is about to return 0 on a record set to N > 0 that has
\* been fulfilled more than N times.
C1_Witness ==
    \E p \in Procs :
        /\ pc[p] = "unlock" /\ op[p] = "RemainTimes" /\ tmp[p] = 0
        /\ hist.setN > 0 /\ hist.since > hist.setN

\* C2: with a mutex injected, the loads and stores of repeatTimes and
\* fulfilledTimes happen only while the caller holds the lock, and no
\* update is lost: whenever no call is inside its critical section,
\* fulfilledTimes is the number of completed Fulfilled() calls and
\* repeatTimes is max(N - k, 0).
C2_NoLostUpdate ==
    locker.kind = "mutex" =>
        /\ \A p \in Procs : InCritical(p) => locker.held = p
        /\ Quiet => /\ e.fulfilledTimes = hist.fulfilled
                    /\ e.repeatTimes = Max(hist.setN - hist.since, 0)

\* One caller is in the middle of Fulfilled() while another one waits for
\* the lock to run Fulfilled() too, after an earlier call has completed.
C2_Witness ==
    /\ locker.kind = "mutex"
    /\ hist.fulfilled >= 1
    /\ \E p, q \in Procs :
          /\ p # q
          /\ pc[p] = "storeF" /\ locker.held = p
          /\ pc[q] = "lock" /\ op[q] = "Fulfilled"

\* C3: FulfilledTimes() returns the number of Fulfilled() calls made so
\* far, whatever repeatTimes is and whatever withTimes() calls happened.
C3_FulfilledTimesCountsCalls ==
    /\ Quiet => e.fulfilledTimes = hist.fulfilled
    /\ \A p \in Procs :
          (pc[p] = "unlock" /\ op[p] = "FulfilledTimes")
              => tmp[p] = hist.fulfilled

\* FulfilledTimes() is about to return 2 or more on an exhausted record
\* on which withTimes() ran after the first Fulfilled().
C3_Witness ==
    \E p \in Procs :
        /\ pc[p] = "unlock" /\ op[p] = "FulfilledTimes" /\ tmp[p] >= 2
        /\ hist.since < hist.fulfilled
        /\ e.repeatTimes = 0

\* C4: on a record with repeatTimes = 0 (unlimited) repeatTimes stays 0,
\* RemainTimes() returns 0, and a Fulfilled() call that is about to return
\* has raised fulfilledTimes by exactly one over the calls completed before.
C4_UnlimitedStaysZero ==
    hist.setN = 0 =>
        /\ e.repeatTimes = 0
        /\ \A p \in Procs :
              /\ (pc[p] = "unlock" /\ op[p] = "RemainTimes") => tmp[p] = 0
              /\ (pc[p] = "unlock" /\ op[p] = "Fulfilled")
                    => e.fulfilledTimes = hist.fulfilled + 1

\* The third Fulfilled() on an unlimited record is about to return.
C4_Witness ==
    /\ hist.setN = 0 /\ hist.since >= 2 /\ e.repeatTimes = 0
    /\ \E p \in Procs : pc[p] = "unlock" /\ op[p] = "Fulfilled"

(***************************************************************************)
(* delayer: noWait, waitForSignal, waitForDuration                         *)
(*                                                                         *)
(* A Go select evaluates its channel expressions on entry (time.After(d)   *)
(* starts the timer), then polls: if one or more cases can proceed one of  *)
(* them is chosen at random; if none can, the goroutine parks and the      *)
(* first case that becomes ready wakes it with that case.                  *)
(***************************************************************************)
DelayKinds == {"noWait", "waitForSignal", "waitForDuration"}
Durations  == (-1)..MaxDur
CtxErrors  == {"Canceled", "DeadlineExceeded"}

DelayNew ==
    /\ \E k \in DelayKinds :
       \E d \in Durations :
          /\ k # "waitForDuration" => d = 0
          /\ dl = [kind |-> k, d |-> d, pc |-> "new", result |-> "none",
                   case |-> "none", blocked |-> FALSE,
                   cancelledAtCall |-> FALSE]
    /\ ctx = [done |-> FALSE, err |-> "nil"]
    /\ sig = [state |-> "empty", fired |-> FALSE]
    /\ clock = 0

\* The cases of the select statement of a blocking delayer.
SelectCasesWithoutDone(k) == {"completion"}

SelectCases(k) == {"ctx", "completion"}

\* <-time.After(d) can proceed once d has elapsed since its evaluation.
TimerDueAtOnce(d, elapsed) == TRUE

TimerDue(d, elapsed) == elapsed >= d

\* Can the case proceed in the given environment?
CaseReady(c, k, d, cx, sg, now) ==
    \/ c = "ctx" /\ cx.done
    \/ c = "completion" /\ k = "waitForSignal"
                        /\ sg.state \in {"value", "closed"}
    \/ c = "completion" /\ k = "waitForDuration" /\ TimerDue(d, now)

ReadyCases(cx, sg, now) ==
    {c \in SelectCases(dl.kind) : CaseReady(c, dl.kind, dl.d, cx, sg, now)}

\* return ctx.Err() / return nil
CaseResult(c) == IF c = "ctx" THEN ctx.err ELSE "nil"

\* A parked select is woken by the first of its cases that becomes ready.
Wake(cx, sg, now) ==
    IF dl.pc = "parked" /\ ReadyCases(cx, sg, now) # {}
    THEN \E c \in ReadyCases(cx, sg, now) :
            dl' = [dl EXCEPT !.pc = "woken", !.case = c]
    ELSE UNCHANGED dl

\* The context is cancelled or its deadline passes.
Cancel ==
    /\ ~ctx.done
    /\ \E err \in CtxErrors : ctx' = [done |-> TRUE, err |-> err]
    /\ Wake(ctx', sig, clock)
    /\ UNCHANGED <<sig, clock>>
    /\ UNCHANGED <<recVars, invVars, fmtVars>>

\* The owner of the channel sends the signal; a parked receiver takes the
\* value at once, otherwise it waits in the channel.
SignalSend ==
    /\ dl.kind = "waitForSignal"
    /\ sig.state = "empty" /\ ~sig.fired
    /\ Wake(ctx, [sig EXCEPT !.state = "value"], clock)
    /\ sig' = [state |-> IF dl'.pc = "woken" /\ dl.pc = "parked"
                         THEN "empty" ELSE "value",
               fired |-> TRUE]
    /\ UNCHANGED <<ctx, clock>>
    /\ UNCHANGED <<recVars, invVars, fmtVars>>

\* The owner of the channel closes it.
SignalClose ==
    /\ dl.kind = "waitForSignal"
    /\ sig.state = "empty" /\ ~sig.fired
    /\ sig' = [state |-> "closed", fired |-> TRUE]
    /\ Wake(ctx, sig', clock)
    /\ UNCHANGED <<ctx, clock>>
    /\ UNCHANGED <<recVars, invVars, fmtVars>>

\* Time passes after time.After(d) was evaluated.
Tick ==
    /\ dl.kind = "waitForDuration"
    /\ dl.pc \in {"select", "parked"}
    /\ clock < MaxDur
    /\ clock' = clock + 1
    /\ Wake(ctx, sig, clock')
    /\ UNCHANGED <<ctx, sig>>
    /\ UNCHANGED <<recVars, invVars, fmtVars>>

\* noWait(): return ctx.Err()
noWait ==
    /\ dl.kind = "noWait" /\ dl.pc = "new"
    /\ dl' = [dl EXCEPT !.pc = "returned", !.result = ctx.err,
                        !.cancelledAtCall = ctx.done]
    /\ UNCHANGED <<ctx, sig, clock>>
    /\ UNCHANGED <<recVars, invVars, fmtVars>>

\* The closure of waitForSignal / waitForDuration is called and enters its
\* select; time.After(d) starts the timer.
DelayCall ==
    /\ dl.kind # "noWait" /\ dl.pc = "new"
    /\ dl' = [dl EXCEPT !.pc = "select", !.cancelledAtCall = ctx.done]
    /\ clock' = 0
    /\ UNCHANGED <<ctx, sig>>
    /\ UNCHANGED <<recVars, invVars, fmtVars>>

\* The select finds a case that can proceed and returns through it.
DelayPoll ==
    /\ dl.pc = "select"
    /\ \E c \in ReadyCases(ctx, sig, clock) :
          /\ dl' = [dl EXCEPT !.pc = "returned", !.case = c,
                              !.result = CaseResult(c)]
          /\ sig' = IF c = "completion" /\ sig.state = "value"
                    THEN [sig EXCEPT !.state = "empty"] ELSE sig
    /\ UNCHANGED <<ctx, clock>>
    /\ UNCHANGED <<recVars, invVars, fmtVars>>

\* The select finds no case that can proceed and parks the goroutine.
DelayPark ==
    /\ dl.pc = "select"
    /\ ReadyCases(ctx, sig, clock) = {}
    /\ dl' = [dl EXCEPT !.pc = "parked", !.blocked = TRUE]
    /\ UNCHANGED <<ctx, sig, clock>>
    /\ UNCHANGED <<recVars, invVars, fmtVars>>

\* The woken goroutine runs the case that woke it and returns.
DelayResume ==
    /\ dl.pc = "woken"
    /\ dl' = [dl EXCEPT !.pc = "returned", !.result = CaseResult(dl.case)]
    /\ UNCHANGED <<ctx, sig, clock>>
    /\ UNCHANGED <<recVars, invVars, fmtVars>>

RecIdle ==
    /\ e = baseExpectation
    /\ locker = [kind |-> "noop", held |-> 0]
    /\ pc = [p \in Procs |-> "idle"]
    /\ op = [p \in Procs |-> "none"]
    /\ tmp = [p \in Procs |-> 0]
    /\ hist = [fulfilled |-> 0, setN |-> 0, since |-> 0,
               before |-> baseExpectation]

NextDelay ==
    \/ Cancel
    \/ SignalSend
    \/ SignalClose
    \/ Tick
    \/ noWait
    \/ DelayCall
    \/ DelayPoll
    \/ DelayPark
    \/ DelayResume

InitDelay == DelayNew /\ RecIdle /\ InvokeIdle /\ FormatIdle

SpecDelay == InitDelay /\ [][NextDelay]_vars

\* The Go scheduler runs every runnable goroutine eventually.
SpecDelayFair ==
    /\ InitDelay /\ [][NextDelay]_vars
    /\ WF_vars(DelayPoll) /\ WF_vars(DelayPark) /\ WF_vars(DelayResume)

Blocking == dl.kind \in {"waitForSignal", "waitForDuration"}
\* The completion source of the delayer has fired.
CompletionFired ==
    \/ dl.kind = "waitForSignal" /\ sig.fired
    \/ dl.kind = "waitForDuration" /\ dl.pc # "new" /\ clock >= dl.d

\* C5: waitForDuration called with an already cancelled context returns
\* the context's error, for every duration.
C5_CancelledContextReturnsError ==
    (dl.kind = "waitForDuration" /\ dl.pc = "returned" /\ dl.cancelledAtCall)
        => (dl.result = ctx.err /\ dl.result # "nil")

\* C6: a blocking delayer has no result before it returns; it returns nil
\* only after its signal / timer has fired, and a non-nil error only after
\* the context was cancelled, that error being ctx.Err().
C6_ReturnsOnlyAfterWakeSource ==
    Blocking =>
        /\ dl.pc # "returned" => dl.result = "none"
        /\ dl.pc = "returned" => dl.result \in {"nil"} \cup CtxErrors
        /\ (dl.pc = "returned" /\ dl.result = "nil") => CompletionFired
        /\ (dl.pc = "returned" /\ dl.result # "nil")
              => (ctx.done /\ dl.result = ctx.err)

\* waitForDuration with d > 0 parked and returned nil after the timer.
C6_Witness ==
    /\ dl.kind = "waitForDuration" /\ dl.d > 0
    /\ dl.pc = "returned" /\ dl.blocked /\ dl.result = "nil"

\* C7: under fair scheduling, a delayer inside its call returns once the
\* context is cancelled or its completion source has fired.
C7_NoMissedWakeup ==
    (Blocking /\ dl.pc \in {"select", "parked", "woken"}
        /\ (ctx.done \/ CompletionFired))
    ~> (dl.pc = "returned")

\* waitForSignal parked and was woken by the cancellation of the context.
C7_Witness ==
    /\ dl.kind = "waitForSignal" /\ dl.blocked
    /\ dl.pc = "returned" /\ dl.result = "Canceled" /\ ~sig.fired


(***************************************************************************)
(* InvokeServerStream and RecvAll                                          *)
(*                                                                         *)
(* An error is the chain of its wrappers, outermost first; nil is <<>>.    *)
(* A string is a sequence of tokens: "/", ":" and "@" are those           *)
(* characters, any other token a run of characters without them.  The     *)
(* method URLs of the model have no query, no fragment, no escapes and no  *)
(* bracketed host.                                                         *)
(***************************************************************************)
Nil == <<>>
Wrap(context, err) == <<context>> \o err
\* errors.Is(err, target)
errorsIs(err, target) == \E i \in 1..Len(err) : err[i] = target

\* The parts the method URLs of the model are put together from.
SchemeParts == { <<>>, <<"dns", ":">>, <<"passthrough", ":">>, <<":">> }
AuthorityParts ==
    { <<>>, <<"/", "/">>, <<"/", "/", "bufnet">>,
      <<"/", "/", "localhost", ":", "50051">>,
      <<"/", "/", "user", "@", "localhost", ":", "50051">>,
      <<"/", "/", "localhost", ":", "Method">> }
Paths == { <<>>, <<"/">>, <<"/", "/">>,
           <<"/", "pkg.Service", "/", "Method">>,
           <<"pkg.Service", "/", "Method">>,
           <<"/", "/", "pkg.Service", "/", "Method">>,
           <<"/", "localhost", ":", "50051", "/", "pkg.Service", "/",
             "Method">>,
           <<"localhost", ":", "50051", "/", "pkg.Service", "/", "Method">>,
           <<"50051", ":", "pkg.Service", "/", "Method">> }
MethodURLs ==
    { t[1] \o t[2] \o t[3] :
        t \in { x \in SchemeParts \X AuthorityParts \X Paths :
                   x[2] # <<>> => (x[3] = <<>> \/ Head(x[3]) = "/") } }

\* Tokens made of scheme characters only and starting with a letter.
SchemeTokens == {"dns", "passthrough", "localhost", "pkg.Service", "Method",
                 "user", "bufnet"}
\* Tokens made of digits only.
DigitTokens == {"50051"}
\* strings.ToLower
ToLower(t) == CASE t = "pkg.Service" -> "pkg.service"
                [] t = "Method"      -> "method"
                [] OTHER             -> t

HasPrefix(str, pre) ==
    Len(str) >= Len(pre) /\ SubSeq(str, 1, Len(pre)) = pre
From(str, i) == SubSeq(str, i, Len(str))
\* strings.Index(s, t) / strings.LastIndex(s, t) for a token t; 0: none
Index(str, t) ==
    IF \E i \in 1..Len(str) : str[i] = t
    THEN CHOOSE i \in 1..Len(str) :
            str[i] = t /\ \A j \in 1..(i - 1) : str[j] # t
    ELSE 0
LastIndex(str, t) ==
    IF \E i \in 1..Len(str) : str[i] = t
    THEN CHOOSE i \in 1..Len(str) :
            str[i] = t /\ \A j \in (i + 1)..Len(str) : str[j] # t
    ELSE 0

NoUser == [nil |-> TRUE, info |-> <<>>]
NoURL(err) == [err |-> err, Scheme |-> "", User |-> NoUser, Host |-> <<>>,
               Path |-> <<>>, Opaque |-> <<>>]

\* url.getScheme: [err, scheme, rest]
getScheme(raw) ==
    IF raw = <<>> THEN [err |-> "nil", scheme |-> "", rest |-> raw]
    ELSE IF raw[1] = ":"
    THEN [err |-> "missing protocol scheme", scheme |-> "", rest |-> <<>>]
    ELSE IF raw[1] \in SchemeTokens /\ Len(raw) >= 2 /\ raw[2] = ":"
    THEN [err |-> "nil", scheme |-> raw[1], rest |-> From(raw, 3)]
    ELSE [err |-> "nil", scheme |-> "", rest |-> raw]

\* url.parseAuthority: [err, User, Host]
parseAuthority(authority) ==
    LET at       == LastIndex(authority, "@")
        host     == IF at = 0 THEN authority ELSE From(authority, at + 1)
        colon    == LastIndex(host, ":")
        port     == From(host, colon + 1)
        portOK   == colon = 0 \/ port = <<>>
                       \/ (Len(port) = 1 /\ port[1] \in DigitTokens)
        userinfo == SubSeq(authority, 1, at - 1)
    IN IF ~portOK
       THEN [err |-> "invalid port after host", User |-> NoUser,
             Host |-> <<>>]
       ELSE [err |-> "nil",
             User |-> IF at = 0 THEN NoUser
                      ELSE [nil |-> FALSE, info |-> userinfo],
             Host |-> host]

\* url.Parse(rawURL), for a URL without query and fragment
urlParse(raw) ==
    LET sc   == getScheme(raw)
        rest == sc.rest
    IN
    IF sc.err # "nil" THEN NoURL(sc.err)
    ELSE IF ~HasPrefix(rest, <<"/">>) /\ sc.scheme # ""
    THEN [NoURL("nil") EXCEPT !.Scheme = ToLower(sc.scheme), !.Opaque = rest]
    ELSE IF ~HasPrefix(rest, <<"/">>)
            /\ LET slash == Index(rest, "/")
                   segment == IF slash = 0 THEN rest
                              ELSE SubSeq(rest, 1, slash - 1)
               IN Index(segment, ":") # 0
    THEN NoURL("first path segment in URL cannot contain colon")
    ELSE IF (sc.scheme # "" \/ ~HasPrefix(rest, <<"/", "/", "/">>))
            /\ HasPrefix(rest, <<"/", "/">>)
    THEN LET after     == From(rest, 3)
             slash     == Index(after, "/")
             authority == IF slash = 0 THEN after
                          ELSE SubSeq(after, 1, slash - 1)
             path      == IF slash = 0 THEN <<>> ELSE From(after, slash)
             au        == parseAuthority(authority)
         IN IF au.err # "nil" THEN NoURL(au.err)
            ELSE [err |-> "nil", Scheme |-> ToLower(sc.scheme),
                  User |-> au.User, Host |-> au.Host, Path |-> path,
                  Opaque |-> <<>>]
    ELSE [err |-> "nil", Scheme |-> ToLower(sc.scheme), User |-> NoUser,
          Host |-> <<>>, Path |-> rest, Opaque |-> <<>>]

\* url.URL{Scheme, User, Host}.String()
URLString(u) ==
    (IF u.Scheme # "" THEN <<u.Scheme, ":">> ELSE <<>>)
    \o (IF u.Host # <<>> \/ ~u.User.nil
        THEN <<"/", "/">>
             \o (IF ~u.User.nil THEN u.User.info \o <<"@">> ELSE <<>>)
             \o u.Host
        ELSE <<>>)

\* strings.TrimLeft(s, "/")
RECURSIVE TrimLeftSlash(_)
TrimLeftSlash(str) ==
    IF str # <<>> /\ Head(str) = "/" THEN TrimLeftSlash(Tail(str)) ELSE str

\* parseMethod, from the result of url.Parse on: [err, addr, method]
parseMethodWithoutMissingCheck(u) ==
    IF u.err # "nil"
    THEN [err |-> <<u.err>>, addr |-> <<>>, method |-> <<>>]
    ELSE [err |-> Nil,
          addr |-> URLString([Scheme |-> u.Scheme, User |-> u.User,
                              Host |-> u.Host]),
          method |-> <<"/">> \o TrimLeftSlash(u.Path)]

parseMethod(u) ==
    IF u.err # "nil"
    THEN [err |-> <<u.err>>, addr |-> <<>>, method |-> <<>>]
    ELSE LET method == <<"/">> \o TrimLeftSlash(u.Path)
         IN IF method = <<"/">>
            THEN [err |-> <<"ErrMissingMethod">>, addr |-> <<>>,
                  method |-> <<>>]
            ELSE [err |-> Nil,
                  addr |-> URLString([Scheme |-> u.Scheme, User |-> u.User,
                                      Host |-> u.Host]),
                  method |-> method]

\* What a variable of the heap or an element of a slice holds: a message
\* value (the zero value before RecvMsg filled it in) or a pointer to a cell
\* of the heap.
Val(m) == [ptr |-> 0, v |-> m]
Ptr(n) == [ptr |-> n, v |-> "pointer"]

Handles  == {"nil", "RecvAll"}
\* What the out argument of RecvAll is.
OutKinds == {"nil", "nonPointer", "pointerToNonSlice", "nilPointerToSlice",
             "pointerToSlice"}
Msgs     == {"a", "b"}
\* Errors of the transport, other than io.EOF.
RecvErrors == {"Unavailable", "Canceled"}

Calls == {"InvokeUnary", "InvokeServerStream"}

\* The order of the calls InvokeServerStream makes.
callOrder == <<"parseMethod", "Dial", "NewStream", "SendMsg", "CloseSend",
               "handle">>

NewInvoke ==
    /\ \E c \in Calls :
       \E url \in MethodURLs :
       \E h \in Handles :
       \E k \in OutKinds :
       \E depth \in 0..MaxDepth :
       \E old \in {<<>>, <<Val("old")>>} :
          /\ c = "InvokeUnary" => h = "nil"
          /\ h = "nil" => k = "nil"
          /\ k \notin {"nilPointerToSlice", "pointerToSlice"} => depth = 0
          /\ k # "pointerToSlice" => old = <<>>
          /\ inv = [pc |-> "parseMethod", call |-> c, url |-> url,
                    handle |-> h, outKind |-> k,
                    depth |-> depth, failed |-> "none", cause |-> "none",
                    result |-> Nil, addr |-> <<>>, method |-> <<>>,
                    slice |-> <<>>, old |-> old]
          /\ out = old
    /\ steps = <<>>
    /\ stream = [msgs |-> <<>>, ending |-> Nil, nRecv |-> 0]
    /\ heap = <<>>

\* Where InvokeServerStream goes after a call: it returns on an error,
\* and after CloseSend it returns when handle is nil.
afterCallIgnoringSendError(call, failed, h) ==
    IF failed /\ call # "SendMsg" THEN "done"
    ELSE CASE call = "parseMethod" -> "Dial"
           [] call = "Dial"        -> "NewStream"
           [] call = "NewStream"   -> "SendMsg"
           [] call = "SendMsg"     -> "CloseSend"
           [] call = "CloseSend"   -> IF h = "nil" THEN "done" ELSE "handle"
           [] OTHER                -> "done"

afterCall(call, failed, h) ==
    IF failed THEN "done"
    ELSE CASE call = "parseMethod" -> "Dial"
           [] call = "Dial"        -> "NewStream"
           [] call = "NewStream"   -> "SendMsg"
           [] call = "SendMsg"     -> "CloseSend"
           [] call = "CloseSend"   -> IF h = "nil" THEN "done" ELSE "handle"
           [] OTHER                -> "done"

\* Where a call goes after prepInvoke: InvokeUnary to conn.Invoke,
\* InvokeServerStream to conn.NewStream.
afterPrep(c) == IF c = "InvokeUnary" THEN "Invoke" ELSE "NewStream"

\* One call of InvokeUnary or InvokeServerStream returned err (Nil on
\* success); the error the function returns is retErr.
Performed(call, err, retErr) ==
    /\ steps' = Append(steps, call)
    /\ inv' = [inv EXCEPT
                 !.pc = IF call = "Dial" /\ err = Nil
                        THEN afterPrep(inv.call)
                        ELSE afterCall(call, err # Nil, inv.handle),
                 !.failed = IF err # Nil /\ @ = "none" THEN call ELSE @,
                 !.cause = IF err # Nil /\ inv.failed = "none"
                           THEN err[1] ELSE @,
                 !.result = IF err # Nil /\ inv.failed = "none"
                            THEN retErr ELSE @]

\* prepInvoke: addr, method, err := parseMethod(method)
prepInvokeParse ==
    /\ inv.pc = "parseMethod"
    /\ LET r == parseMethod(urlParse(inv.url)) IN
          /\ steps' = Append(steps, "parseMethod")
          /\ inv' = [inv EXCEPT
                       !.pc = afterCall("parseMethod", r.err # Nil,
                                        inv.handle),
                       !.failed = IF r.err # Nil THEN "parseMethod" ELSE @,
                       !.cause = IF r.err # Nil THEN r.err[1] ELSE @,
                       !.result = IF r.err # Nil
                                  THEN Wrap("coulld not parse method url",
                                            r.err)
                                  ELSE @,
                       !.addr = r.addr,
                       !.method = r.method]
    /\ UNCHANGED <<stream, heap, out>>
    /\ UNCHANGED <<recVars, delayVars, fmtVars>>

\* prepInvoke: invokeOptions, then conn, err := grpc.DialContext(...)
prepInvokeDial ==
    /\ inv.pc = "Dial"
    /\ \E err \in {Nil, <<"dial failed">>} : Performed("Dial", err, err)
    /\ UNCHANGED <<stream, heap, out>>
    /\ UNCHANGED <<recVars, delayVars, fmtVars>>

\* InvokeUnary: return conn.Invoke(ctx, method, in, out, callOpts...)
Invoke ==
    /\ inv.pc = "Invoke"
    /\ \E err \in {Nil, <<"invoke failed">>} : Performed("Invoke", err, err)
    /\ UNCHANGED <<stream, heap, out>>
    /\ UNCHANGED <<recVars, delayVars, fmtVars>>

\* stream, err := conn.NewStream(ctx, desc, method, callOpts...)
NewStream ==
    /\ inv.pc = "NewStream"
    /\ \E err \in {Nil, <<"stream failed">>} :
          Performed("NewStream", err, err)
    /\ UNCHANGED <<stream, heap, out>>
    /\ UNCHANGED <<recVars, delayVars, fmtVars>>

\* stream.SendMsg(in)
SendMsg ==
    /\ inv.pc = "SendMsg"
    /\ \E err \in {Nil, <<"send failed">>} : Performed("SendMsg", err, err)
    /\ UNCHANGED <<stream, heap, out>>
    /\ UNCHANGED <<recVars, delayVars, fmtVars>>

\* stream.CloseSend(), then: if handle == nil { return nil }
CloseSend ==
    /\ inv.pc = "CloseSend"
    /\ \E err \in {Nil, <<"close failed">>} :
          Performed("CloseSend", err, err)
    /\ UNCHANGED <<stream, heap, out>>
    /\ UNCHANGED <<recVars, delayVars, fmtVars>>

\* return handle(stream), handle being RecvAll(out): the checks on the
\* type of out that precede the loop.
RecvAllCheck ==
    /\ inv.pc = "handle"
    /\ steps' = Append(steps, "handle")
    /\ LET err == IF inv.outKind \in {"nil", "nonPointer"}
                  THEN <<"is not a pointer">>
                  ELSE IF inv.outKind = "pointerToNonSlice"
                  THEN <<"is not a slice">>
                  ELSE Nil
       IN inv' = [inv EXCEPT
                    !.pc = IF err = Nil THEN "recv" ELSE "done",
                    !.failed = IF err = Nil THEN @ ELSE "handle",
                    !.cause = IF err = Nil THEN @ ELSE err[1],
                    !.result = err,
                    !.slice = <<>>]
    /\ UNCHANGED <<stream, heap, out>>
    /\ UNCHANGED <<recVars, delayVars, fmtVars>>

\* newMessageValue(t): strip the pointers of the element type, then
\* reflect.New; the new cell is the last one of the heap it returns.
RECURSIVE newMessageValue(_, _)
newMessageValue(h, depth) ==
    IF depth > 0 THEN newMessageValue(h, depth - 1)
    ELSE Append(h, Val("zero"))

\* newSliceMessageValue(t, v): v itself for a non-pointer element type,
\* otherwise a new pointer to newSliceMessageValue(t.Elem(), v).
RECURSIVE newSliceMessageValue(_, _, _)
newSliceMessageValue(h, depth, v) ==
    IF depth = 0 THEN [heap |-> h, val |-> v]
    ELSE LET addr  == Len(h) + 1
             inner == newSliceMessageValue(Append(h, Val("zero")),
                                           depth - 1, v)
         IN [heap |-> [inner.heap EXCEPT ![addr] = inner.val],
             val  |-> Ptr(addr)]

\* appendMessage(s, v), without the allocation: reflect.Append(s, x)
appendMessageInFront(sl, x) == <<x>> \o sl

appendMessage(sl, x) == Append(sl, x)

\* What one pass of the loop does with the error of stream.RecvMsg.
afterRecvSwallowingErrors(err) ==
    IF err # Nil THEN "break" ELSE "append"

afterRecv(err) ==
    IF errorsIs(err, "EOF") THEN "break"
    ELSE IF err # Nil THEN "return"
    ELSE "append"

\* What the caller's slice holds after one pass of the loop: RecvAll
\* stores through out only after the loop, which only io.EOF leaves.
outAfterPassWritingThrough(cur, slice, todo) == slice

outAfterPass(cur, slice, todo) == IF todo = "break" THEN slice ELSE cur

\* What the stream can answer to the next RecvMsg: a message or an ending;
\* once ended it keeps answering with its ending.
RecvAnswers ==
    IF stream.ending # Nil THEN {[err |-> stream.ending, msg |-> "none"]}
    ELSE [err : {<<"EOF">>} \cup {<<x>> : x \in RecvErrors}, msg : {"none"}]
         \cup (IF Len(stream.msgs) < MaxMsgs
               THEN [err : {Nil}, msg : Msgs] ELSE {})

\* One pass of the loop of RecvAll; on io.EOF the pass leaves the loop,
\* stores the slice through out and returns nil.
RecvAllLoop ==
    /\ inv.pc = "recv"
    /\ \E a \in RecvAnswers :
          LET h1   == newMessageValue(heap, inv.depth)
              msg  == Len(h1)
              h2   == IF a.err = Nil THEN [h1 EXCEPT ![msg] = Val(a.msg)]
                                        ELSE h1
              todo == afterRecv(a.err)
              app  == newSliceMessageValue(h2, inv.depth, h2[msg])
          IN
          /\ stream' = [stream EXCEPT
                          !.nRecv = @ + 1,
                          !.msgs = IF a.err = Nil
                                   THEN Append(@, a.msg) ELSE @,
                          !.ending = a.err]
          /\ CASE todo = "break" ->
                    /\ heap' = h2
                    /\ IF inv.outKind = "nilPointerToSlice"
                       THEN /\ inv' = [inv EXCEPT !.pc = "panic",
                                          !.failed = "handle",
                                          !.cause = "panic"]
                            /\ out' = out
                       ELSE /\ inv' = [inv EXCEPT !.pc = "done",
                                          !.result = Nil]
                            /\ out' = outAfterPass(out, inv.slice, todo)
              [] todo = "return" ->
                    /\ heap' = h2
                    /\ inv' = [inv EXCEPT
                                 !.pc = "done",
                                 !.failed = "handle",
                                 !.cause = a.err[1],
                                 !.result = Wrap("could not recv msg", a.err)]
                    /\ out' = outAfterPass(out, inv.slice, todo)
              [] OTHER ->
                    /\ heap' = app.heap
                    /\ inv' = [inv EXCEPT
                                 !.slice = appendMessage(@, app.val)]
                    /\ out' = outAfterPass(out, inv.slice, todo)
    /\ UNCHANGED steps
    /\ UNCHANGED <<recVars, delayVars, fmtVars>>

NextInvoke ==
    \/ prepInvokeParse
    \/ prepInvokeDial
    \/ Invoke
    \/ NewStream
    \/ SendMsg
    \/ CloseSend
    \/ RecvAllCheck
    \/ RecvAllLoop

InitInvoke == NewInvoke /\ RecIdle /\ DelayIdle /\ FormatIdle

SpecInvoke == InitInvoke /\ [][NextInvoke]_vars

\* The value an element of the slice stands for: follow its pointers.
RECURSIVE Deref(_)
Deref(x) == IF x.ptr = 0 THEN x.v ELSE Deref(heap[x.ptr])

\* The heap cells an element of the slice is made of.
RECURSIVE Cells(_)
Cells(x) == IF x.ptr = 0 THEN {} ELSE {x.ptr} \cup Cells(heap[x.ptr])

IsPrefix(a, b) == Len(a) <= Len(b) /\ \A i \in 1..Len(a) : a[i] = b[i]
Returned == inv.pc = "done"
\* RecvAll ran on a pointer to a slice.
Draining == inv.handle = "RecvAll" /\ inv.outKind = "pointerToSlice"
                /\ "handle" \in {steps[i] : i \in 1..Len(steps)}


\* C8: InvokeServerStream makes its calls in the order parseMethod, Dial,
\* NewStream, SendMsg, CloseSend, handle, each at most once.  handle runs
\* only when it is not nil and no earlier call failed; a failing call is
\* the last one made and the function returns its error; with a nil handle
\* the function returns nil after CloseSend without any receive.
C8_CallOrder ==
    inv.call = "InvokeServerStream" =>
    /\ IsPrefix(steps, callOrder)
    /\ (steps # <<>> /\ steps[Len(steps)] = "handle")
          => (inv.handle # "nil" /\ inv.failed \in {"none", "handle"})
    /\ inv.failed # "none"
          => /\ steps[Len(steps)] = inv.failed
             /\ Returned => errorsIs(inv.result, inv.cause)
             /\ inv.failed # "handle" => (Returned /\ stream.nRecv = 0)
    /\ (Returned /\ inv.failed = "none" /\ inv.handle = "nil")
          => /\ inv.result = Nil
             /\ steps = SubSeq(callOrder, 1, 5)
             /\ stream.nRecv = 0
    /\ (Returned /\ inv.failed = "none" /\ inv.handle # "nil")
          => steps = callOrder

\* A call with a handle got through all six calls and returned nil.
C8_Witness ==
    /\ inv.call = "InvokeServerStream"
    /\ Returned /\ inv.handle = "RecvAll" /\ inv.failed = "none"
    /\ steps = callOrder /\ inv.result = Nil /\ stream.nRecv >= 1

\* C9: when the stream has delivered n messages and then io.EOF, RecvAll
\* has made n + 1 receives, returns nil, and out holds n elements, the
\* i-th standing for the i-th message, made of heap cells no other element
\* shares.
C9_RecvAllCollectsInOrder ==
    (Returned /\ Draining /\ errorsIs(stream.ending, "EOF"))
        => /\ inv.result = Nil
           /\ stream.nRecv = Len(stream.msgs) + 1
           /\ Len(out) = Len(stream.msgs)
           /\ \A i \in 1..Len(out) :
                 /\ Deref(out[i]) = stream.msgs[i]
                 /\ Cardinality(Cells(out[i])) = inv.depth
           /\ \A i, j \in 1..Len(out) :
                 i # j => Cells(out[i]) \cap Cells(out[j]) = {}

\* RecvAll returned after two different messages and io.EOF, into a slice
\* of pointers.
C9_Witness ==
    /\ Returned /\ Draining /\ errorsIs(stream.ending, "EOF")
    /\ inv.depth >= 1
    /\ Len(stream.msgs) >= 2 /\ stream.msgs[1] # stream.msgs[2]
    /\ Len(out) = Len(stream.msgs)

\* C10: the first receive that fails with an error other than io.EOF is
\* the last receive; RecvAll returns an error wrapping it and not nil.
C10_RecvErrorEndsDrain ==
    /\ (stream.ending # Nil /\ ~errorsIs(stream.ending, "EOF"))
          => /\ stream.nRecv = Len(stream.msgs) + 1
             /\ Returned
             /\ inv.result # Nil
             /\ inv.result = Wrap("could not recv msg", stream.ending)
             /\ errorsIs(inv.result, stream.ending[1])
    /\ stream.nRecv <= Len(stream.msgs) + 1

\* The second receive failed with a transport error after one message.
C10_Witness ==
    /\ Returned /\ Draining
    /\ stream.ending = <<"Unavailable">>
    /\ Len(stream.msgs) = 1 /\ stream.nRecv = 2
    /\ inv.result # Nil

\* The method URL "dns:///localhost:50051/pkg.Service/Method".
DnsURL == <<"dns", ":", "/", "/", "/", "localhost", ":", "50051", "/",
            "pkg.Service", "/", "Method">>

\* C11: parsing "dns:///localhost:50051/pkg.Service/Method" yields the
\* connection target "dns:///localhost:50051" and the method path
\* "/pkg.Service/Method".
C11_DnsTargetAndPath ==
    (inv.url = DnsURL /\ inv.pc \notin {"off", "parseMethod"})
        => /\ inv.failed # "parseMethod"
           /\ inv.addr = <<"dns", ":", "/", "/", "/", "localhost", ":",
                           "50051">>
           /\ inv.method = <<"/", "pkg.Service", "/", "Method">>

\* The method URL does not parse, or its path is empty or only slashes.
BadMethod ==
    LET u == urlParse(inv.url)
    IN u.err # "nil" \/ TrimLeftSlash(u.Path) = <<>>

\* C12: when the method URL does not parse, or its path is empty or only
\* slashes, InvokeUnary and InvokeServerStream return an error (one that
\* is the missing-method error when the URL parsed) and parseMethod is the
\* only call they made: no dial, no conn.Invoke, no stream, no send, no
\* handle, no receive.
C12_BadMethodFailsBeforeConnecting ==
    (BadMethod /\ inv.pc \notin {"off", "parseMethod"})
        => /\ Returned
           /\ steps = <<"parseMethod">>
           /\ inv.failed = "parseMethod"
           /\ inv.result # Nil
           /\ urlParse(inv.url).err = "nil"
                 => errorsIs(inv.result, "ErrMissingMethod")
           /\ urlParse(inv.url).err # "nil"
                 => errorsIs(inv.result, urlParse(inv.url).err)
           /\ stream.nRecv = 0
           /\ out = inv.old

\* InvokeUnary returned the missing-method error for a URL that parsed
\* with a path of slashes only.
C12_Witness ==
    /\ inv.call = "InvokeUnary" /\ Returned
    /\ urlParse(inv.url).err = "nil"
    /\ urlParse(inv.url).Path # <<>>
    /\ TrimLeftSlash(urlParse(inv.url).Path) = <<>>
    /\ errorsIs(inv.result, "ErrMissingMethod")
    /\ steps = <<"parseMethod">>

\* C13: when out is not a pointer to a slice (nil, not a pointer, a
\* pointer to something else, or a nil pointer to a slice), RecvAll returns
\* an error and never panics, whatever the stream does.
C13_BadOutReturnsError ==
    (inv.outKind \in {"nil", "nonPointer", "pointerToNonSlice",
                      "nilPointerToSlice"}
        /\ "handle" \in {steps[i] : i \in 1..Len(steps)})
        => /\ inv.pc # "panic"
           /\ Returned => inv.result # Nil

\* RecvAll returned nil at io.EOF on a pointer to a slice.
Collected == Returned /\ Draining /\ inv.result = Nil

\* C19: RecvAll stores through out once, at the end of the stream: until
\* it returns nil the caller's slice holds what it held before the call,
\* also when RecvAll returns an error; when it returns nil the slice holds
\* the received messages in place of its earlier contents.
C19_OutStoredOnceAtEndOfStream ==
    /\ ~Collected => out = inv.old
    /\ Collected
          => /\ out = inv.slice
             /\ Len(out) = Len(stream.msgs)
             /\ \A i \in 1..Len(out) : Deref(out[i]) = stream.msgs[i]

\* RecvAll returned nil after one message into a slice that was not empty.
C19_Witness ==
    /\ Collected /\ inv.old # <<>>
    /\ Len(stream.msgs) >= 1 /\ Len(out) = Len(stream.msgs)

(***************************************************************************)
(* Further claims about baseExpectation (checked under Spec).              *)
(***************************************************************************)
Min(a, b) == IF a < b THEN a ELSE b

\* A step of a caller that is past e.lock(): none of them waits.
CriticalStep(p) ==
    \/ withFs(p)
    \/ withTimes(p)
    \/ HeaderMatcher(p)
    \/ RemainTimes(p)
    \/ FulfilledLoadRepeat(p)
    \/ FulfilledStoreRepeat(p)
    \/ FulfilledLoadFulfilled(p)
    \/ FulfilledStoreFulfilled(p)
    \/ FulfilledTimes(p)
    \/ unlock(p)

\* C17: with a mutex injected, a caller of withFs, withTimes,
\* HeaderMatcher, RemainTimes, Fulfilled or FulfilledTimes holds the lock
\* exactly from its e.lock() to its return: the lock is held by p if and
\* only if p is inside one of these methods past e.lock(), so it is free
\* whenever no such call is in progress and a caller waiting in e.lock()
\* does not hold it already; and there is no deadlock: a caller waiting in
\* e.lock() can take the lock, or the holder can take its next step.
C17_LockHeldExactlyDuringCall ==
    locker.kind = "mutex" =>
        /\ locker.held \in Procs \cup {0}
        /\ \A p \in Procs : locker.held = p <=> InCritical(p)
        /\ Quiet => locker.held = 0
        /\ \A p \in Procs :
              pc[p] = "lock"
                 => /\ locker.held # p
                    /\ \/ ENABLED lock(p)
                       \/ \E q \in Procs \ {p} :
                             locker.held = q /\ ENABLED CriticalStep(q)

\* One caller is about to leave withTimes() with the lock held while
\* another one waits in e.lock() to run HeaderMatcher().
C17_Witness ==
    /\ locker.kind = "mutex"
    /\ \E p, q \in Procs :
          /\ p # q
          /\ pc[p] = "unlock" /\ op[p] = "withTimes" /\ locker.held = p
          /\ pc[q] = "lock" /\ op[q] = "HeaderMatcher"

\* C18, as stated: HeaderMatcher() and PayloadMatcher() both hold the lock
\* of the record while they read their matcher.
C18_BothMatchersReadUnderLock ==
    locker.kind = "mutex" =>
        \A p \in Procs :
            (pc[p] = "body" /\ op[p] \in {"HeaderMatcher", "PayloadMatcher"})
                => locker.held = p

\* C18, amended: HeaderMatcher() holds the lock of the record while it
\* reads the header matcher; PayloadMatcher() reads the payload matcher
\* without taking the lock, and no method of the record ever writes the
\* header matcher or the payload matcher after construction.
C18_HeaderMatcherReadsUnderLock ==
    /\ e.requestHeader = baseExpectation.requestHeader
    /\ e.requestPayload = baseExpectation.requestPayload
    /\ locker.kind = "mutex" =>
          \A p \in Procs :
              /\ (pc[p] = "body" /\ op[p] = "HeaderMatcher")
                    => locker.held = p
              /\ (pc[p] = "body" /\ op[p] = "PayloadMatcher")
                    => locker.held # p

\* One caller reads the header matcher holding the lock while the other
\* reads the payload matcher without it.
C18_Witness ==
    /\ locker.kind = "mutex"
    /\ \E p, q \in Procs :
          /\ pc[p] = "body" /\ op[p] = "HeaderMatcher" /\ locker.held = p
          /\ pc[q] = "body" /\ op[q] = "PayloadMatcher"

\* What one Fulfilled() call makes of the record it found.
AfterOneFulfilled(b) ==
    [b EXCEPT !.fulfilledTimes = @ + 1,
              !.repeatTimes = IF @ > 0 THEN @ - 1 ELSE @]

\* C20, as stated: a Fulfilled() call that is about to return has raised
\* fulfilledTimes by one, lowered repeatTimes by one if it was above 0 and
\* changed no other field; and on a record set to N > 0 by the last
\* withTimes, repeatTimes + min(fulfilledTimes, N) = N whenever no call is
\* inside its critical section.
C20_CounterIdentityAsStated ==
    /\ \A p \in Procs :
          (pc[p] = "unlock" /\ op[p] = "Fulfilled")
              => e = AfterOneFulfilled(hist.before)
    /\ (Quiet /\ hist.setN > 0)
          => e.repeatTimes + Min(e.fulfilledTimes, hist.setN) = hist.setN

\* C20, amended: a Fulfilled() call that is about to return has raised
\* fulfilledTimes by one, lowered repeatTimes by one if it was above 0 and
\* changed no other field; on a record set to N > 0 by the last withTimes,
\* with k the Fulfilled() calls completed since then,
\* repeatTimes + min(k, N) = N whenever no call is inside its critical
\* section, and k may be replaced by fulfilledTimes when no Fulfilled()
\* call preceded that withTimes.
C20_FulfilledStepsCountersByOne ==
    /\ \A p \in Procs :
          (pc[p] = "unlock" /\ op[p] = "Fulfilled")
              => e = AfterOneFulfilled(hist.before)
    /\ (Quiet /\ hist.setN > 0)
          => e.repeatTimes + Min(hist.since, hist.setN) = hist.setN
    /\ (Quiet /\ hist.setN > 0 /\ hist.since = hist.fulfilled)
          => e.repeatTimes + Min(e.fulfilledTimes, hist.setN) = hist.setN

\* The second Fulfilled() on a record set to N >= 2 before any Fulfilled()
\* is about to return, having lowered repeatTimes.
C20_Witness ==
    /\ hist.setN >= 2 /\ hist.since = hist.fulfilled /\ hist.since = 1
    /\ hist.before.repeatTimes > 0
    /\ \E p \in Procs : pc[p] = "unlock" /\ op[p] = "Fulfilled"

(***************************************************************************)
(* format: ExpectedRequest, ExpectedRequestTimes, Request                  *)
(*                                                                         *)
(* A value handed to the formatter is a record: its dynamic type (kind),   *)
(* its text (s) and, for a matcher built around another value, that value  *)
(* (inner, a sequence of length 0 or 1).  A formatted string is a sequence *)
(* of pieces, the empty string the empty sequence.                         *)
(***************************************************************************)
Value(k, str, in) == [kind |-> k, s |-> str, inner |-> in]
\* the nil interface
NilValue   == Value("nil", "", <<>>)
Str(str)   == Value("string", str, <<>>)
Bytes(str) == Value("bytes", str, <<>>)
\* matcher.Exact(x)
Exact(x)   == Value("ExactMatcher", "", <<x>>)
\* a grpcMatcher.FnMatcher with the description str
Fn(str)    == Value("FnMatcher", str, <<>>)
\* any other matcher.Matcher, such as a matcher.JSONMatcher
JSON(str)  == Value("Matcher", str, <<>>)
\* a matcher.Callback returning m
Callback(m) == Value("Callback", "", <<m>>)
\* a *grpcMatcher.PayloadMatcher around m, and the nil pointer of that type
Payload(m) == Value("PayloadMatcher", "", <<m>>)
NilPayload == Value("nilPayloadMatcher", "", <<>>)
\* a value that is no matcher and no scalar (marshalled to str), and a nil
\* map or pointer of such a type
Other(str) == Value("other", str, <<>>)
NilOther   == Value("nilOther", "", <<>>)

Text(str) == IF str = "" THEN <<>> ELSE <<str>>

\* grpcReflect.IsNil
IsNil(v) == v.kind \in {"nil", "nilPayloadMatcher", "nilOther"}

\* fmt's %T
TypeName(v) ==
    CASE v.kind = "string"            -> "string"
      [] v.kind = "bytes"             -> "[]uint8"
      [] v.kind = "ExactMatcher"      -> "matcher.ExactMatcher"
      [] v.kind = "FnMatcher"         -> "matcher.FnMatcher"
      [] v.kind = "Matcher"           -> "matcher.JSONMatcher"
      [] v.kind = "Callback"          -> "matcher.Callback"
      [] v.kind = "PayloadMatcher"    -> "*matcher.PayloadMatcher"
      [] v.kind = "nilPayloadMatcher" -> "*matcher.PayloadMatcher"
      [] v.kind = "nil"               -> "<nil>"
      [] OTHER                        -> "map[string]interface {}"

\* m.Expected(): the description of a matcher; a matcher built around
\* another one hands on the description of that one.
RECURSIVE Expected(_)
Expected(m) ==
    CASE m.kind = "ExactMatcher" -> Text(m.inner[1].s)
      [] m.kind \in {"FnMatcher", "Matcher"} -> Text(m.s)
      [] m.kind \in {"Callback", "PayloadMatcher"} -> Expected(m.inner[1])
      [] OTHER -> <<"panic: nil pointer dereference">>

\* value.Marshal
Marshal(v) == Text(v.s)

\* formatValue without its case for matcher.Callback: a Callback is a
\* matcher.Matcher and falls to that case.
RECURSIVE formatValueWithoutCallbackCase(_)
formatValueWithoutCallbackCase(v) ==
    CASE v.kind = "nil" -> <<"<nil>">>
      [] v.kind \in {"bytes", "string"} -> Text(v.s)
      [] v.kind = "FnMatcher" ->
            IF Expected(v) # <<>> THEN Expected(v)
            ELSE <<"matches custom expectation">>
      [] v.kind = "nilPayloadMatcher" -> <<>>
      [] v.kind = "PayloadMatcher" ->
            formatValueWithoutCallbackCase(v.inner[1])
      [] v.kind \in {"ExactMatcher", "Matcher", "Callback"} -> Expected(v)
      [] OTHER -> IF IsNil(v) THEN <<>> ELSE Marshal(v)

RECURSIVE formatValue(_)
formatValue(v) ==
    CASE v.kind = "nil" -> <<"<nil>">>
      [] v.kind \in {"bytes", "string"} -> Text(v.s)
      [] v.kind = "Callback" -> formatValue(v.inner[1])
      [] v.kind = "FnMatcher" ->
            IF Expected(v) # <<>> THEN Expected(v)
            ELSE <<"matches custom expectation">>
      [] v.kind = "nilPayloadMatcher" -> <<>>
      [] v.kind = "PayloadMatcher" -> formatValue(v.inner[1])
      [] v.kind \in {"ExactMatcher", "Matcher"} -> Expected(v)
      [] OTHER -> IF IsNil(v) THEN <<>> ELSE Marshal(v)

UnknownValueType == <<"panic: unknown value type">>

RECURSIVE formatValueInline(_)
formatValueInline(v) ==
    CASE v.kind = "nil" -> <<"<nil>">>
      [] v.kind \in {"ExactMatcher", "FnMatcher", "bytes", "string"} ->
            formatValue(v)
      [] v.kind = "Callback" -> formatValueInline(v.inner[1])
      [] v.kind = "nilPayloadMatcher" -> <<>>
      [] v.kind = "PayloadMatcher" -> formatValueInline(v.inner[1])
      [] v.kind = "Matcher" ->
            <<TypeName(v), "(", "\"">> \o Expected(v) \o <<"\"", ")">>
      [] OTHER -> IF IsNil(v) THEN <<>> ELSE UnknownValueType

RECURSIVE formatType(_)
formatType(v) ==
    IF IsNil(v) THEN <<>>
    ELSE CASE v.kind \in {"ExactMatcher", "FnMatcher", "bytes", "string"} ->
                 <<>>
           [] v.kind \in {"Callback", "PayloadMatcher"} ->
                 formatType(v.inner[1])
           [] OTHER -> <<" using ", TypeName(v)>>

\* Header keys "a", "ab", "b", "ba", each as the sequence of its bytes
\* counted from "a" = 1.
HeaderKeys == { <<1>>, <<1, 2>>, <<2>>, <<2, 1>> }

\* a < b on strings: the byte-wise order of Go
RECURSIVE Less(_, _)
Less(a, b) ==
    IF b = <<>> THEN FALSE
    ELSE IF a = <<>> THEN TRUE
    ELSE IF Head(a) # Head(b) THEN Head(a) < Head(b)
    ELSE Less(Tail(a), Tail(b))

\* sort.Strings(keys), as an insertion sort
RECURSIVE Insert(_, _)
Insert(k, sorted) ==
    IF sorted = <<>> THEN <<k>>
    ELSE IF Less(k, Head(sorted)) THEN <<k>> \o sorted
    ELSE <<Head(sorted)>> \o Insert(k, Tail(sorted))

sortStringsSkipped(keys) == keys

RECURSIVE sortStrings(_)
sortStrings(keys) ==
    IF keys = <<>> THEN <<>>
    ELSE Insert(Head(keys), sortStrings(Tail(keys)))

\* The orders in which a range over a map with these keys can yield them.
RangeOrders(keys) ==
    { o \in [1..Cardinality(keys) -> keys] :
         \A i, j \in 1..Cardinality(keys) : i # j => o[i] # o[j] }

\* remainingCalls > 0 && (totalCalls != 0 || remainingCalls != 1)
callsShownWheneverRemaining(totalCalls, remainingCalls) ==
    remainingCalls > 0

callsShown(totalCalls, remainingCalls) ==
    remainingCalls > 0 /\ (totalCalls # 0 \/ remainingCalls # 1)

\* One line of the output.  calls holds the two numbers of the suffix
\* " (called: %d time(s), remaining: %d time(s))" when the line has it.
Line(kind, key, text, calls) ==
    [kind |-> kind, key |-> key, text |-> text, calls |-> calls]

\* svc.MethodType and svc.FullName()
svc == [MethodType |-> "Unary", FullName |-> "/pkg.Service/Method"]

\* formatRequestTimes, the range over the header yielding its keys in order
formatRequestTimes(header, payload, totalCalls, remainingCalls, order) ==
    LET first == Line("method", <<>>,
                      <<svc.MethodType, " ", svc.FullName>>,
                      IF callsShown(totalCalls, remainingCalls)
                      THEN <<[total |-> totalCalls,
                              remaining |-> remainingCalls]>>
                      ELSE <<>>)
        keys  == sortStrings(order)
        head  == IF Len(order) > 0
                 THEN <<Line("with header", <<>>, <<"with header:">>, <<>>)>>
                      \o [i \in 1..Len(keys) |->
                            Line("header", keys[i],
                                 formatValueInline(header[keys[i]]), <<>>)]
                 ELSE <<>>
        body  == IF ~IsNil(payload) /\ formatValue(payload) # <<>>
                 THEN << Line("with payload", <<>>,
                              <<"with payload">> \o formatType(payload),
                              <<>>),
                         Line("payload", <<>>, formatValue(payload), <<>>) >>
                 ELSE <<>>
    IN <<first>> \o head \o body

Entries == {"ExpectedRequest", "ExpectedRequestTimes", "Request"}
\* What a grpcMatcher.HeaderMatcher and a map[string]string hold.
HeaderMatchers == {Exact(Str("1")), JSON("{}"), Callback(Fn(""))}
HeaderStrings  == {Str("1"), Str("2")}
Payloads == {NilValue, Str("hello"), NilPayload,
             Payload(Exact(Bytes("hello"))), JSON("{}"), Other("{}")}
Counts == 0..MaxCount

\* The header maps with at most MaxKeys keys and values from vals.
Headers(vals) ==
    UNION { [ks -> vals] :
              ks \in {k \in SUBSET HeaderKeys : Cardinality(k) <= MaxKeys} }

NewRequest ==
    /\ \E entry \in Entries :
       \E header \in Headers(HeaderMatchers) \cup Headers(HeaderStrings) :
       \E payload \in Payloads :
          /\ header \in (IF entry = "Request" THEN Headers(HeaderStrings)
                         ELSE Headers(HeaderMatchers))
          /\ entry # "Request" => payload.kind \notin {"string", "other"}
          /\ fm = [pc |-> "call", entry |-> entry, header |-> header,
                   payload |-> payload, totalCalls |-> 0,
                   remainingCalls |-> 0, order |-> <<>>, out |-> <<>>]

\* An entry point ran with these counts, the range over the header
\* yielding its keys in some order.
Formatted(totalCalls, remainingCalls) ==
    \E order \in RangeOrders(DOMAIN fm.header) :
        fm' = [fm EXCEPT
                 !.pc = "done",
                 !.totalCalls = totalCalls,
                 !.remainingCalls = remainingCalls,
                 !.order = order,
                 !.out = formatRequestTimes(fm.header, fm.payload,
                                            totalCalls, remainingCalls,
                                            order)]

\* ExpectedRequestTimes(w, svc, header, payload, 0, 0)
ExpectedRequest ==
    /\ fm.pc = "call" /\ fm.entry = "ExpectedRequest"
    /\ Formatted(0, 0)
    /\ UNCHANGED fv
    /\ UNCHANGED <<recVars, delayVars, invVars>>

\* formatRequestTimes(w, svc, expectedHeader, payload, totalCalls,
\*                    remainingCalls)
ExpectedRequestTimes ==
    /\ fm.pc = "call" /\ fm.entry = "ExpectedRequestTimes"
    /\ \E totalCalls \in Counts : \E remainingCalls \in Counts :
          Formatted(totalCalls, remainingCalls)
    /\ UNCHANGED fv
    /\ UNCHANGED <<recVars, delayVars, invVars>>

\* formatRequestTimes(w, svc, interfaceHeader, payload, 0, 0)
Request ==
    /\ fm.pc = "call" /\ fm.entry = "Request"
    /\ Formatted(0, 0)
    /\ UNCHANGED fv
    /\ UNCHANGED <<recVars, delayVars, invVars>>

NextFormat ==
    \/ ExpectedRequest
    \/ ExpectedRequestTimes
    \/ Request

InitFormat ==
    NewRequest /\ ValueIdle /\ RecIdle /\ DelayIdle /\ InvokeIdle

SpecFormat == InitFormat /\ [][NextFormat]_vars

\* The matchers a Callback can return and a PayloadMatcher can hold, with
\* at most n layers of Callback and PayloadMatcher around them.
RECURSIVE Wrapped(_)
Wrapped(n) ==
    IF n = 0
    THEN {NilValue, NilPayload, Exact(Str("hello")), Exact(Bytes("hello")),
          Fn(""), Fn("is ok"), JSON("{}")}
    ELSE LET W == Wrapped(n - 1)
         IN W \cup {Callback(m) : m \in W} \cup {Payload(m) : m \in W}

Values == Wrapped(MaxWrap)
             \cup {Str("hello"), Bytes("hello"), Other("{}"), NilOther}

NewValue ==
    \E v \in Values : fv = [pc |-> "call", fn |-> "none", v |-> v,
                            result |-> <<>>]

FormatValue ==
    /\ fv.pc = "call"
    /\ fv' = [fv EXCEPT !.pc = "done", !.fn = "formatValue",
                        !.result = formatValue(fv.v)]
    /\ UNCHANGED fm
    /\ UNCHANGED <<recVars, delayVars, invVars>>

FormatValueInline ==
    /\ fv.pc = "call"
    /\ LET r == formatValueInline(fv.v)
       IN fv' = [fv EXCEPT
                   !.pc = IF r = UnknownValueType THEN "panic" ELSE "done",
                   !.fn = "formatValueInline",
                   !.result = r]
    /\ UNCHANGED fm
    /\ UNCHANGED <<recVars, delayVars, invVars>>

FormatType ==
    /\ fv.pc = "call"
    /\ fv' = [fv EXCEPT !.pc = "done", !.fn = "formatType",
                        !.result = formatType(fv.v)]
    /\ UNCHANGED fm
    /\ UNCHANGED <<recVars, delayVars, invVars>>

NextValue ==
    \/ FormatValue
    \/ FormatValueInline
    \/ FormatType

InitValue ==
    NewValue /\ RequestIdle /\ RecIdle /\ DelayIdle /\ InvokeIdle

SpecValue == InitValue /\ [][NextValue]_vars

\* The lines of the header block, in the order of the output.
HeaderLines == SelectSeq(fm.out, LAMBDA l : l.kind = "header")

\* The value inside all the Callback and PayloadMatcher layers of v.
RECURSIVE Unwrap(_)
Unwrap(v) ==
    IF v.kind \in {"Callback", "PayloadMatcher"} THEN Unwrap(v.inner[1])
    ELSE v

\* C14: the first line carries the suffix with the two counts if and only
\* if remainingCalls > 0 and not (totalCalls = 0 and remainingCalls = 1);
\* ExpectedRequest and Request, which pass 0 and 0, never produce it.
C14_CallCountSuffix ==
    fm.pc = "done" =>
        /\ fm.out[1].kind = "method"
        /\ fm.out[1].calls # <<>>
              <=> (fm.remainingCalls > 0
                     /\ ~(fm.totalCalls = 0 /\ fm.remainingCalls = 1))
        /\ fm.out[1].calls # <<>>
              => fm.out[1].calls = <<[total |-> fm.totalCalls,
                                      remaining |-> fm.remainingCalls]>>
        /\ fm.entry \in {"ExpectedRequest", "Request"}
              => fm.out[1].calls = <<>>

\* ExpectedRequestTimes with totalCalls = 2 and remainingCalls = 1 wrote
\* the suffix.
C14_Witness ==
    /\ fm.pc = "done" /\ fm.entry = "ExpectedRequestTimes"
    /\ fm.totalCalls = 2 /\ fm.remainingCalls = 1
    /\ fm.out[1].calls # <<>>

\* C15: for a header that is not empty the header block has one line per
\* key, in ascending order of the keys, whatever order the range over the
\* map yielded them in, each line with the inline format of the value of its
\* key; so the block is the same for every map with the same entries.
C15_HeaderKeysSorted ==
    (fm.pc = "done" /\ DOMAIN fm.header # {})
        => /\ fm.out[2].kind = "with header"
           /\ Len(HeaderLines) = Cardinality(DOMAIN fm.header)
           /\ {HeaderLines[i].key : i \in 1..Len(HeaderLines)}
                 = DOMAIN fm.header
           /\ \A i, j \in 1..Len(HeaderLines) :
                 i < j => Less(HeaderLines[i].key, HeaderLines[j].key)
           /\ \A i \in 1..Len(HeaderLines) :
                 /\ fm.out[i + 2] = HeaderLines[i]
                 /\ HeaderLines[i].text
                       = formatValueInline(fm.header[HeaderLines[i].key])

\* A header with the keys "b" and "a" was formatted after the range over
\* it yielded "b" first.
C15_Witness ==
    /\ fm.pc = "done"
    /\ DOMAIN fm.header = {<<1>>, <<2>>}
    /\ fm.order = << <<2>>, <<1>> >>
    /\ Len(HeaderLines) = 2

=============================================================================
